---- MODULE Spec2Model ----
(***************************************************************************)
(* Model of query_user_stats (web3_proxy/src/stats/influxdb_queries.rs):   *)
(* one report request, from bearer check to the response envelope.         *)
(*                                                                         *)
(* An Option<T> is a sequence of length at most one: <<>> is None and      *)
(* <<x>> is Some(x).  A HashMap is a function on the set of its keys.      *)
(* A String that the code parses is a sequence of one-character strings;   *)
(* a String that the code only compares or copies is a TLA+ string.        *)
(***************************************************************************)
EXTENDS Integers, Sequences, FiniteSets, TLC

VARIABLES
    bearer,                 \* Option<bearer token> of the request
    params,                 \* query parameters of the request
    stat_response_type,     \* StatType of the request
    db_replica,             \* app.db_replica(): Option<handle>
    influxdb_client,        \* app.influxdb_client: Option<handle>
    influxdb_bucket,        \* app.config.influxdb_bucket: Option<String>
    rpc_key_table,          \* rows of rpc_key as the relational reads see them
    secondary_user_table,   \* rows of secondary_user as the second read sees them
    user_id,                \* local user_id (0 = anonymous)
    measurement,            \* local measurement
    rpc_key_id_to_key,      \* local HashMap rpc_secret_key_id -> Ulid
    user_rpc_keys,          \* local Vec<String> of visible key ids
    rpc_key_filter,         \* Option<Vec<String>>: the contains(...) filter, <<>> for ""
    query,                  \* Option<built query>
    raw_influx_responses,   \* Vec<FluxRecord.values> returned by the store
    datapoints,             \* Vec of decoded rows
    response_body,          \* HashMap of the envelope
    events,                 \* external calls and steps of this request, in order
    result,                 \* what the caller gets: [kind, msg]
    pc                      \* position of the handler

vars == <<bearer, params, stat_response_type, db_replica, influxdb_client,
          influxdb_bucket, rpc_key_table, secondary_user_table, user_id,
          measurement, rpc_key_id_to_key, user_rpc_keys, rpc_key_filter, query,
          raw_influx_responses, datapoints, response_body, events, result, pc>>

request == <<bearer, params, stat_response_type>>
app     == <<db_replica, influxdb_client, influxdb_bucket>>
tables  == <<rpc_key_table, secondary_user_table>>
scope   == <<rpc_key_id_to_key, user_rpc_keys, rpc_key_filter>>

(***************************************************************************)
(* Bounds of the model.                                                    *)
(***************************************************************************)
MaxDelegations == 2     \* rows of secondary_user in a fixture
MaxRecords == 1         \* records in one store response (request model)
MaxFields == 2          \* fields of one raw record (decoder model)

(***************************************************************************)
(* Fixture domains.                                                        *)
(***************************************************************************)
Users == {7, 8}
KeyIds == {3, 9}
Roles == {"Owner", "Admin", "Member"}
StatTypes == {"Aggregated", "Detailed"}
EmptyMap == [x \in {} |-> x]

Some(x) == <<x>>
IsNone(opt) == Len(opt) = 0
IsSome(opt) == Len(opt) = 1
Unwrap(opt) == opt[1]

Insert(map, key, val) ==
    [k \in DOMAIN map \cup {key} |-> IF k = key THEN val ELSE map[k]]

\* Web3ProxyResponse as the caller sees it.
NoResult == [kind |-> "Pending", msg |-> ""]
Ok(msg) == [kind |-> "Ok", msg |-> msg]
BadRequest(msg) == [kind |-> "BadRequest", msg |-> msg]
Internal(msg) == [kind |-> "Internal", msg |-> msg]
Unauthorized(msg) == [kind |-> "Unauthorized", msg |-> msg]
Panic(msg) == [kind |-> "Panic", msg |-> msg]


(***************************************************************************)
(* Collaborators outside src/: bearer verification and http_params.        *)
(***************************************************************************)
\* app.bearer_is_authorized: the logins the verifier accepts.
Logins == ("token7" :> 7)
Bearers == {<<>>, <<"token7">>, <<"expired">>}

bearer_is_authorized(token) ==
    IF token \in DOMAIN Logins
    THEN [ok |-> TRUE, user_id |-> Logins[token]]
    ELSE [ok |-> FALSE, user_id |-> 0]

\* rpc_key_id query parameter as sent: absent, or a string of characters.
RpcKeyIdParams == {<<>>, << <<"a", "b", "c">> >>, << <<"5">> >>, << <<"1", "2">> >>,
                   << <<"-", "1">> >>}

\* params after the http_params getters: parsed.ok is FALSE when one of the
\* four getters returns Err.
Params ==
    [ok : BOOLEAN,
     query_window_seconds : {300},
     query_start : {1000},
     query_stop : {1000, 2000},
     chain_id : {0, 1},
     rpc_key_id : RpcKeyIdParams]

(***************************************************************************)
(* str::parse::<u64>, digit by digit.                                      *)
(***************************************************************************)
Digits == ("0" :> 0) @@ ("1" :> 1) @@ ("2" :> 2) @@ ("3" :> 3) @@ ("4" :> 4) @@
          ("5" :> 5) @@ ("6" :> 6) @@ ("7" :> 7) @@ ("8" :> 8) @@ ("9" :> 9)

RECURSIVE ParseDigits(_, _)
ParseDigits(chars, acc) ==
    IF Len(chars) = 0 THEN Some(acc)
    ELSE IF Head(chars) \in DOMAIN Digits
         THEN ParseDigits(Tail(chars), acc * 10 + Digits[Head(chars)])
         ELSE <<>>

\* Option<u64>: <<>> is Err(ParseIntError).  An empty string, a sign alone
\* and a minus sign are errors; one leading "+" is accepted.
ParseU64(chars) ==
    IF Len(chars) = 0 THEN <<>>
    ELSE IF Head(chars) = "+"
         THEN (IF Len(chars) = 1 THEN <<>> ELSE ParseDigits(Tail(chars), 0))
         ELSE ParseDigits(chars, 0)

(***************************************************************************)
(* Relational fixture: rpc_key and secondary_user.                         *)
(***************************************************************************)
RpcKeyRow(id, owner) == [id |-> id, user_id |-> owner, secret_key |-> 100 + id]

\* The ids of S in increasing order (rows come back in primary-key order).
RECURSIVE SortedIds(_)
SortedIds(S) ==
    IF S = {} THEN <<>>
    ELSE LET m == CHOOSE x \in S : \A y \in S : x <= y
         IN <<m>> \o SortedIds(S \ {m})

RpcKeyTables ==
    UNION {{[i \in 1..Len(SortedIds(S)) |-> RpcKeyRow(SortedIds(S)[i], f[SortedIds(S)[i]])] :
              f \in [S -> Users]} : S \in SUBSET KeyIds}

SecondaryUserRows == [user_id : Users, rpc_key_id : KeyIds, role : Roles]

SecondaryUserTables ==
    UNION {[1..n -> SecondaryUserRows] : n \in 0..MaxDelegations}

\* Ulid::from(uuid).to_string(): the display form of a secret.
UlidToString(secret_key) == ToString(secret_key)

(***************************************************************************)
(* Scope resolution, lines 80-140.                                         *)
(***************************************************************************)
\* rpc_key::Entity::find().filter(UserId.eq(user_id)).all()
FindRpcKeys(table, uid) == SelectSeq(table, LAMBDA x : x.user_id = uid)

\* the .map() closure of lines 93-98: the key strings, in row order
OwnedKeyIds(rows) == [i \in 1..Len(rows) |-> ToString(rows[i].id)]

RECURSIVE InsertRows(_, _)
InsertRows(map, rows) ==
    IF Len(rows) = 0 THEN map
    ELSE InsertRows(Insert(map, ToString(Head(rows).id), UlidToString(Head(rows).secret_key)),
                    Tail(rows))

\* secondary_user::Entity::find().filter(UserId.eq(user_id))
\*     .find_also_related(rpc_key::Entity).all()
\* a sequence of pairs <<subuser, Option<rpc_key row>>>
FindSubusersWithKeys(subusers, keys, uid) ==
    LET mine == SelectSeq(subusers, LAMBDA s : s.user_id = uid)
        Related(s) == LET hit == SelectSeq(keys, LAMBDA k : k.id = s.rpc_key_id)
                      IN IF Len(hit) = 0 THEN <<>> ELSE Some(hit[1])
    IN [i \in 1..Len(mine) |-> <<mine[i], Related(mine[i])>>]

\* a role check that lets every role through
RoleGrantsAccess_AnyRole(role) == role \in Roles

\* line 113
RoleGrantsAccess(role) == role = "Admin" \/ role = "Owner"

\* the flat_map closure of lines 110-124, on one pair: Option<rpc_key row>
SharedKey(pair) ==
    IF IsSome(pair[2]) /\ RoleGrantsAccess(pair[1].role) THEN pair[2] ELSE <<>>

RECURSIVE SharedKeyRows(_)
SharedKeyRows(pairs) ==
    IF Len(pairs) = 0 THEN <<>>
    ELSE SharedKey(Head(pairs)) \o SharedKeyRows(Tail(pairs))

\* the check of line 129 left out
IsEmpty_Never(keys) == FALSE

\* line 129
IsEmpty(keys) == Len(keys) = 0


(***************************************************************************)
(* Query construction, lines 74-78 and 142-196.  The query text is kept as *)
(* the record of the fragments the template is filled with.                *)
(***************************************************************************)
Measurement(uid) == IF uid = 0 THEN "global_proxy" ELSE "opt_in_proxy"

\* a chain filter emitted for every chain_id, 0 included
FilterChainId_Always(chain_id) == Some(chain_id)

\* lines 151-154: Option<chain id> of the chain filter, <<>> for ""
FilterChainId(chain_id) == IF chain_id # 0 THEN Some(chain_id) ELSE <<>>

\* lines 167-170: TRUE when the drop(columns: ["method"]) stage is emitted
DropMethod(stat) == stat = "Aggregated"

BuildQuery(bucket, start, stop, key_filter, meas, chain_id, stat, window) ==
    [bucket |-> bucket,
     range_start |-> start,
     range_stop |-> stop,
     rpc_key_filter |-> key_filter,
     measurement |-> meas,
     filter_chain_id |-> FilterChainId(chain_id),
     drop_method |-> DropMethod(stat),
     every |-> window]

(***************************************************************************)
(* Values of the store (influxdb2_structmap::value::Value) and of the      *)
(* report (serde_json::Value).                                             *)
(***************************************************************************)
\* A store value is its tag and its payload: str for String, num for the
\* numeric and time tags.  The field the tag does not use keeps a default.
VString(s) == [tag |-> "String", str |-> s, num |-> 0]
VLong(n) == [tag |-> "Long", str |-> "", num |-> n]
VDouble(n) == [tag |-> "Double", str |-> "", num |-> n]
VTimeRFC(t) == [tag |-> "TimeRFC", str |-> "", num |-> t]

\* A JSON value is its type and its payload, in the field of that type.
JValue(type, str, num, bool, items) ==
    [type |-> type, str |-> str, num |-> num, bool |-> bool, items |-> items]
JString(s) == JValue("String", s, 0, FALSE, <<>>)
JNumber(n) == JValue("Number", "", n, FALSE, <<>>)
JFloat(n) == JValue("Float", "", n, FALSE, <<>>)
JBool(b) == JValue("Bool", "", 0, b, <<>>)
JArray(items) == JValue("Array", "", 0, FALSE, items)

\* DateTime::to_string()
TimeToString(t) == ToString(t)

(***************************************************************************)
(* Record decoding, lines 209-457.  DecodeEntry is the body of the         *)
(* for_each closure on one (key, value): the entries it inserts in out.    *)
(***************************************************************************)
Collection(inner) ==
    IF inner = "opt_in_proxy" THEN "opt-in"
    ELSE IF inner = "global_proxy" THEN "global"
    ELSE "unknown"

\* lines 420-426 and 438-444
TriState(inner) ==
    IF inner = "true" THEN JBool(TRUE)
    ELSE IF inner = "false" THEN JBool(FALSE)
    ELSE JString("error")

LongEntry(public, value) ==
    IF value.tag = "Long" THEN (public :> JNumber(value.num)) ELSE EmptyMap

DoubleEntry(public, value) ==
    IF value.tag = "Double" THEN (public :> JFloat(value.num)) ELSE EmptyMap

TimeEntry(public, value) ==
    IF value.tag = "TimeRFC" THEN (public :> JString(TimeToString(value.num))) ELSE EmptyMap

\* method kept whatever the granularity
KeepsMethod_Always(stat, key) == key = "method"

\* line 397
KeepsMethod(stat, key) == stat = "Detailed" /\ key = "method"

\* line 375: rpc_key_id_to_key.get(&inner).unwrap() panics on None
LookupPanics(key, value, map) ==
    key = "rpc_secret_key_id" /\ value.tag = "String" /\ value.str \notin DOMAIN map

DecodeEntry(key, value, stat, map) ==
    IF key = "_measurement" THEN
        (IF value.tag = "String"
         THEN ("collection" :> JString(Collection(value.str))) ELSE EmptyMap)
    ELSE IF key = "_stop" THEN TimeEntry("stop_time", value)
    ELSE IF key = "_time" THEN TimeEntry("time", value)
    ELSE IF key = "backend_requests" THEN LongEntry("total_backend_requests", value)
    ELSE IF key = "balance" THEN DoubleEntry("balance", value)
    ELSE IF key = "cache_hits" THEN LongEntry("total_cache_hits", value)
    ELSE IF key = "cache_misses" THEN LongEntry("total_cache_misses", value)
    ELSE IF key = "frontend_requests" THEN LongEntry("total_frontend_requests", value)
    ELSE IF key = "no_servers" THEN LongEntry("no_servers", value)
    ELSE IF key = "sum_credits_used" THEN DoubleEntry("total_credits_used", value)
    ELSE IF key = "sum_request_bytes" THEN LongEntry("total_request_bytes", value)
    ELSE IF key = "sum_response_bytes" THEN LongEntry("total_response_bytes", value)
    ELSE IF key = "rpc_secret_key_id" THEN
        (IF value.tag = "String" /\ value.str \in DOMAIN map
         THEN ("rpc_key" :> JString(map[value.str])) ELSE EmptyMap)
    ELSE IF key = "sum_response_millis" THEN LongEntry("total_response_millis", value)
    ELSE IF KeepsMethod(stat, key) THEN
        (IF value.tag = "String" THEN ("method" :> JString(value.str)) ELSE EmptyMap)
    ELSE IF key = "chain_id" THEN
        (IF value.tag = "String" THEN ("chain_id" :> JString(value.str)) ELSE EmptyMap)
    ELSE IF key = "archive_needed" THEN
        (IF value.tag = "String" THEN ("archive_needed" :> TriState(value.str)) ELSE EmptyMap)
    ELSE IF key = "error_response" THEN
        (IF value.tag = "String" THEN ("error_response" :> TriState(value.str)) ELSE EmptyMap)
    ELSE EmptyMap

\* the closure of lines 213-456 on one record: TRUE when it panics (DecodeEntry
\* is only used on the records for which this is FALSE)
RecordPanics(value_map, map) ==
    \E key \in DOMAIN value_map : LookupPanics(key, value_map[key], map)

\* a decoder that gives up the record at the first mistyped field
DecodeRecord_AllOrNothing(value_map, stat, map) ==
    LET Entry(key) == DecodeEntry(key, value_map[key], stat, map)
        publics == UNION {DOMAIN Entry(key) : key \in DOMAIN value_map}
        dropped == \E key \in DOMAIN value_map :
                      /\ Entry(key) = EmptyMap
                      /\ DecodeEntry(key, VString("true"), "Detailed", map) # EmptyMap
                            \/ DecodeEntry(key, VLong(1), "Detailed", map) # EmptyMap
                            \/ DecodeEntry(key, VDouble(1), "Detailed", map) # EmptyMap
                            \/ DecodeEntry(key, VTimeRFC(1), "Detailed", map) # EmptyMap
    IN IF dropped THEN EmptyMap
       ELSE [public \in publics |->
               Entry(CHOOSE key \in DOMAIN value_map : public \in DOMAIN Entry(key))[public]]

\* the closure of lines 213-456 on one record that does not panic: out.
\* No two keys of the chain insert under the same public key, so the order
\* of the inserts does not show.
DecodeRecord(value_map, stat, map) ==
    LET Entry(key) == DecodeEntry(key, value_map[key], stat, map)
        publics == UNION {DOMAIN Entry(key) : key \in DOMAIN value_map}
    IN [public \in publics |->
          Entry(CHOOSE key \in DOMAIN value_map : public \in DOMAIN Entry(key))[public]]

DecodeAll(records, stat, map) ==
    [i \in 1..Len(records) |-> DecodeRecord(records[i], stat, map)]

AnyRecordPanics(records, map) ==
    \E i \in 1..Len(records) : RecordPanics(records[i], map)

(***************************************************************************)
(* Envelope, lines 461-486.                                                *)
(***************************************************************************)
\* user_id inserted for every caller
WithUserId_Always(body, uid) == Insert(body, "user_id", JNumber(uid))

\* lines 474-478
WithUserId(body, uid) ==
    IF uid = 0 THEN body ELSE Insert(body, "user_id", JNumber(uid))

\* lines 481-486, on a parameter that parses
WithRpcKeyId(body, rpc_key_id) ==
    IF IsSome(rpc_key_id)
    THEN Insert(body, "rpc_key_id", JNumber(Unwrap(ParseU64(Unwrap(rpc_key_id)))))
    ELSE body

\* lines 481-484: TRUE when the parameter is there and does not parse
RpcKeyIdParseFails(rpc_key_id) ==
    IsSome(rpc_key_id) /\ IsNone(ParseU64(Unwrap(rpc_key_id)))

ResponseBody(points, window, start, chain_id) ==
    ("num_items" :> JNumber(Len(points))) @@
    ("result" :> JArray(points)) @@
    ("query_window_seconds" :> JNumber(window)) @@
    ("query_start" :> JNumber(start)) @@
    ("chain_id" :> JNumber(chain_id))


(***************************************************************************)
(* What the time-series store may answer: it enforces no schema.           *)
(***************************************************************************)
SampleRecords ==
    { ("_time" :> VTimeRFC(1300)) @@ ("chain_id" :> VString("1")) @@
      ("rpc_secret_key_id" :> VString("3")) @@ ("frontend_requests" :> VLong(5)) @@
      ("archive_needed" :> VString("false")) @@ ("error_response" :> VString("false")),
      ("_measurement" :> VString("global_proxy")) @@ ("method" :> VString("eth_call")) @@
      ("backend_requests" :> VString("2")),
      ("rpc_secret_key_id" :> VLong(9)) @@ ("sum_credits_used" :> VDouble(4)),
      ("rpc_secret_key_id" :> VString("9")) @@ ("cache_hits" :> VLong(1)) }

StoreResponses == UNION {[1..n -> SampleRecords] : n \in 0..MaxRecords}

(***************************************************************************)
(* The request.                                                            *)
(***************************************************************************)
Init ==
    /\ bearer \in Bearers
    /\ params \in Params
    /\ stat_response_type \in StatTypes
    /\ db_replica \in {<<>>, <<"replica">>}
    /\ influxdb_client \in {<<>>, <<"client">>}
    /\ influxdb_bucket \in {<<>>, <<"web3_proxy">>}
    /\ rpc_key_table = <<>>
    /\ secondary_user_table = <<>>
    /\ user_id = 0
    /\ measurement = ""
    /\ rpc_key_id_to_key = EmptyMap
    /\ user_rpc_keys = <<>>
    /\ rpc_key_filter = <<>>
    /\ query = <<>>
    /\ raw_influx_responses = <<>>
    /\ datapoints = <<>>
    /\ response_body = EmptyMap
    /\ events = <<>>
    /\ result = NoResult
    /\ pc = "Start"

Fail(err) ==
    /\ result' = err
    /\ pc' = "Failed"

\* lines 36-42
Authorize ==
    /\ pc = "Start"
    /\ IF IsNone(bearer)
       THEN /\ user_id' = 0
            /\ pc' = "Authorized"
            /\ UNCHANGED <<events, result>>
       ELSE LET checked == bearer_is_authorized(Unwrap(bearer))
            IN /\ events' = Append(events, "bearer_check")
               /\ IF checked.ok
                  THEN /\ user_id' = checked.user_id
                       /\ pc' = "Authorized"
                       /\ UNCHANGED result
                  ELSE /\ Fail(Unauthorized("bearer is not authorized"))
                       /\ UNCHANGED user_id
    /\ UNCHANGED <<request, app, tables, scope, measurement, query,
                   raw_influx_responses, datapoints, response_body>>

\* the check of line 45 left out
DetailedNeedsBearer_Skipped(stat, uid) == FALSE

\* line 45
DetailedNeedsBearer(stat, uid) == stat = "Detailed" /\ uid = 0

\* the check of line 67 left out
WindowIsEmpty_Skipped(start, stop) == FALSE

\* line 67
WindowIsEmpty(start, stop) == start = stop

\* a handle that is taken as there when it is not
HandleMissing_Never(handle) == FALSE

\* lines 51-59: Option::context() on a handle
HandleMissing(handle) == IsNone(handle)

\* lines 44-78
Validate ==
    /\ pc = "Authorized"
    /\ IF DetailedNeedsBearer(stat_response_type, user_id)
       THEN /\ Fail(BadRequest("Detailed Stats Response requires you to authorize with a bearer token"))
            /\ UNCHANGED measurement
       ELSE IF HandleMissing(db_replica)
       THEN /\ Fail(Internal("query_user_stats needs a db replica"))
            /\ UNCHANGED measurement
       ELSE IF HandleMissing(influxdb_client)
       THEN /\ Fail(Internal("query_user_stats needs an influxdb client"))
            /\ UNCHANGED measurement
       ELSE IF ~params.ok
       THEN /\ Fail([kind |-> "ParamError", msg |-> "http_params"])
            /\ UNCHANGED measurement
       ELSE IF WindowIsEmpty(params.query_start, params.query_stop)
       THEN /\ Fail(BadRequest("Start and Stop date cannot be equal. Please specify a (different) start date."))
            /\ UNCHANGED measurement
       ELSE /\ measurement' = Measurement(user_id)
            /\ pc' = "Validated"
            /\ UNCHANGED result
    /\ UNCHANGED <<request, app, tables, scope, user_id, query,
                   raw_influx_responses, datapoints, response_body, events>>

\* lines 83-85
AnonymousScope ==
    /\ pc = "Validated"
    /\ user_id = 0
    /\ rpc_key_filter' = <<>>
    /\ pc' = "ScopeResolved"
    /\ UNCHANGED <<request, app, tables, user_id, measurement, rpc_key_id_to_key,
                   user_rpc_keys, query, raw_influx_responses, datapoints,
                   response_body, events, result>>

\* lines 86-99
FetchOwnedKeys ==
    /\ pc = "Validated"
    /\ user_id # 0
    /\ events' = Append(events, "read_owned_keys")
    /\ \/ /\ Fail(Internal("failed loading user's key"))
          /\ UNCHANGED <<rpc_key_table, user_rpc_keys, rpc_key_id_to_key>>
       \/ \E table \in RpcKeyTables :
            LET rows == FindRpcKeys(table, user_id)
            IN /\ rpc_key_table' = table
               /\ user_rpc_keys' = OwnedKeyIds(rows)
               /\ rpc_key_id_to_key' = InsertRows(rpc_key_id_to_key, rows)
               /\ pc' = "OwnedKeysLoaded"
               /\ UNCHANGED result
    /\ UNCHANGED <<request, app, secondary_user_table, user_id, measurement,
                   rpc_key_filter, query, raw_influx_responses, datapoints,
                   response_body>>

\* delegated keys that get no display value
WithSharedKeys_Forgotten(map, shared) == map

\* lines 114-116: the inserts of the flat_map closure
WithSharedKeys(map, shared) == InsertRows(map, shared)

\* lines 101-140
FetchSubuserKeys ==
    /\ pc = "OwnedKeysLoaded"
    /\ events' = Append(events, "read_subuser_keys")
    /\ \/ /\ Fail(Internal("failed loading subuser keys"))
          /\ UNCHANGED <<secondary_user_table, user_rpc_keys, rpc_key_id_to_key,
                         rpc_key_filter>>
       \/ \E subusers \in SecondaryUserTables :
            LET shared == SharedKeyRows(FindSubusersWithKeys(subusers, rpc_key_table, user_id))
                keys == user_rpc_keys \o OwnedKeyIds(shared)
            IN /\ secondary_user_table' = subusers
               /\ rpc_key_id_to_key' = WithSharedKeys(rpc_key_id_to_key, shared)
               /\ user_rpc_keys' = keys
               /\ IF IsEmpty(keys)
                  THEN /\ Fail(BadRequest("User has no secret RPC keys yet"))
                       /\ UNCHANGED rpc_key_filter
                  ELSE /\ rpc_key_filter' = Some(keys)
                       /\ pc' = "ScopeResolved"
                       /\ UNCHANGED result
    /\ UNCHANGED <<request, app, rpc_key_table, user_id, measurement, query,
                   raw_influx_responses, datapoints, response_body>>

\* line 148
BucketMissing(bucket) == IsNone(bucket)

\* lines 142-196
BuildQueryText ==
    /\ pc = "ScopeResolved"
    /\ IF BucketMissing(influxdb_bucket)
       THEN /\ Fail(Internal("No influxdb bucket was provided"))
            /\ UNCHANGED <<query, events>>
       ELSE /\ query' = Some(BuildQuery(Unwrap(influxdb_bucket), params.query_start,
                                        params.query_stop, rpc_key_filter, measurement,
                                        params.chain_id, stat_response_type,
                                        params.query_window_seconds))
            /\ events' = Append(events, "query_built")
            /\ pc' = "QueryBuilt"
            /\ UNCHANGED result
    /\ UNCHANGED <<request, app, tables, scope, user_id, measurement,
                   raw_influx_responses, datapoints, response_body>>

\* a store call that is issued again when it fails
ExecuteQuery_Retrying ==
    /\ pc = "QueryBuilt"
    /\ events' = Append(events, "query_sent")
    /\ \/ UNCHANGED <<raw_influx_responses, result, pc>>
       \/ \E records \in StoreResponses :
            /\ raw_influx_responses' = records
            /\ pc' = "RecordsFetched"
            /\ UNCHANGED result
    /\ UNCHANGED <<request, app, tables, scope, user_id, measurement, query,
                   datapoints, response_body>>

\* lines 198-202
ExecuteQuery ==
    /\ pc = "QueryBuilt"
    /\ events' = Append(events, "query_sent")
    /\ \/ /\ Fail(Internal("failed parsing query result into a FluxRecord"))
          /\ UNCHANGED raw_influx_responses
       \/ \E records \in StoreResponses :
            /\ raw_influx_responses' = records
            /\ pc' = "RecordsFetched"
            /\ UNCHANGED result
    /\ UNCHANGED <<request, app, tables, scope, user_id, measurement, query,
                   datapoints, response_body>>

\* lines 209-457
Decode ==
    /\ pc = "RecordsFetched"
    /\ events' = Append(events, "decode")
    /\ IF AnyRecordPanics(raw_influx_responses, rpc_key_id_to_key)
       THEN /\ result' = Panic("called Option::unwrap() on a None value")
            /\ pc' = "Panicked"
            /\ UNCHANGED datapoints
       ELSE /\ datapoints' = DecodeAll(raw_influx_responses, stat_response_type,
                                       rpc_key_id_to_key)
            /\ pc' = "Decoded"
            /\ UNCHANGED result
    /\ UNCHANGED <<request, app, tables, scope, user_id, measurement, query,
                   raw_influx_responses, response_body>>

\* lines 461-493
Assemble ==
    /\ pc = "Decoded"
    /\ LET body == WithUserId(ResponseBody(datapoints, params.query_window_seconds,
                                           params.query_start, params.chain_id),
                              user_id)
       IN IF RpcKeyIdParseFails(params.rpc_key_id)
          THEN /\ response_body' = body
               /\ Fail(BadRequest("Unable to parse rpc_key_id"))
          ELSE /\ response_body' = WithRpcKeyId(body, params.rpc_key_id)
               /\ result' = Ok("response")
               /\ pc' = "Done"
    /\ UNCHANGED <<request, app, tables, scope, user_id, measurement, query,
                   raw_influx_responses, datapoints, events>>

Next ==
    \/ Authorize
    \/ Validate
    \/ AnonymousScope
    \/ FetchOwnedKeys
    \/ FetchSubuserKeys
    \/ BuildQueryText
    \/ ExecuteQuery
    \/ Decode
    \/ Assemble

Spec == Init /\ [][Next]_vars


(***************************************************************************)
(* The decoder on its own: the request has reached the store and the store *)
(* answers with one record out of every record of at most MaxFields fields, *)
(* each field well typed or not.                                           *)
(***************************************************************************)
LongFields == {"backend_requests", "cache_hits", "cache_misses", "frontend_requests",
               "no_servers", "sum_request_bytes", "sum_response_bytes",
               "sum_response_millis"}
DoubleFields == {"balance", "sum_credits_used"}
TimeFields == {"_stop", "_time"}
FlagFields == {"archive_needed", "error_response"}

\* every field name the store may send: the ones the decoder knows and one
\* it does not ("_start")
FieldNames ==
    LongFields \cup DoubleFields \cup TimeFields \cup FlagFields \cup
    {"_measurement", "rpc_secret_key_id", "method", "chain_id", "_start"}

FieldValues(key) ==
    IF key \in LongFields THEN {VLong(5), VDouble(5)}
    ELSE IF key \in DoubleFields THEN {VDouble(2), VLong(2)}
    ELSE IF key \in TimeFields THEN {VTimeRFC(1300), VString("1300")}
    ELSE IF key \in FlagFields
         THEN {VString("true"), VString("false"), VString("maybe"), VLong(1)}
    ELSE IF key = "_measurement"
         THEN {VString("opt_in_proxy"), VString("global_proxy"), VString("other"), VLong(1)}
    ELSE IF key = "rpc_secret_key_id" THEN {VString("3"), VString("9"), VLong(3)}
    ELSE IF key = "method" THEN {VString("eth_call"), VLong(1)}
    ELSE IF key = "chain_id" THEN {VString("1"), VLong(1)}
    ELSE {VTimeRFC(1000)}

RECURSIVE SubsetsUpTo(_, _)
SubsetsUpTo(S, n) ==
    IF n = 0 THEN {{}}
    ELSE SubsetsUpTo(S, n - 1) \cup
         {T \cup {x} : T \in SubsetsUpTo(S, n - 1), x \in S}

RECURSIVE RecordsOver(_)
RecordsOver(S) ==
    IF S = {} THEN {EmptyMap}
    ELSE LET key == CHOOSE k \in S : TRUE
         IN {(key :> v) @@ r : v \in FieldValues(key), r \in RecordsOver(S \ {key})}

RawRecords == UNION {RecordsOver(S) : S \in SubsetsUpTo(FieldNames, MaxFields)}

\* The requests that reach the store with these fixtures: an anonymous
\* Aggregated one, and user 7 owning key 3, Aggregated or Detailed.
DecoderCallers ==
    {[bearer |-> <<>>, user_id |-> 0, stat |-> "Aggregated",
      table |-> <<>>, events |-> <<"query_built", "query_sent">>]} \cup
    {[bearer |-> <<"token7">>, user_id |-> 7, stat |-> stat,
      table |-> <<RpcKeyRow(3, 7)>>,
      events |-> <<"bearer_check", "read_owned_keys", "read_subuser_keys",
                   "query_built", "query_sent">>] : stat \in StatTypes}

InitDecode ==
    \E caller \in DecoderCallers, record \in RawRecords :
      LET rows == FindRpcKeys(caller.table, caller.user_id)
      IN /\ bearer = caller.bearer
         /\ params = [ok |-> TRUE, query_window_seconds |-> 300, query_start |-> 1000,
                      query_stop |-> 2000, chain_id |-> 1, rpc_key_id |-> <<>>]
         /\ stat_response_type = caller.stat
         /\ db_replica = <<"replica">>
         /\ influxdb_client = <<"client">>
         /\ influxdb_bucket = <<"web3_proxy">>
         /\ rpc_key_table = caller.table
         /\ secondary_user_table = <<>>
         /\ user_id = caller.user_id
         /\ measurement = Measurement(caller.user_id)
         /\ rpc_key_id_to_key = InsertRows(EmptyMap, rows)
         /\ user_rpc_keys = OwnedKeyIds(rows)
         /\ rpc_key_filter = IF caller.user_id = 0 THEN <<>> ELSE Some(OwnedKeyIds(rows))
         /\ query = Some(BuildQuery("web3_proxy", 1000, 2000, rpc_key_filter,
                                    measurement, 1, caller.stat, 300))
         /\ raw_influx_responses = <<record>>
         /\ datapoints = <<>>
         /\ response_body = EmptyMap
         /\ events = caller.events
         /\ result = NoResult
         /\ pc = "RecordsFetched"

NextDecode == Decode

SpecDecode == InitDecode /\ [][NextDecode]_vars


(***************************************************************************)
(* Properties.                                                             *)
(***************************************************************************)
Finished == pc \in {"Done", "Failed", "Panicked"}
Happened(event) == \E i \in 1..Len(events) : events[i] = event
QuerySent == Happened("query_sent")
SeqToSet(seq) == {seq[i] : i \in 1..Len(seq)}

\* the bearer, if any, is one the verifier accepts: the caller is Anonymous
\* or Authenticated
CallerIdentified == IsNone(bearer) \/ Unwrap(bearer) \in DOMAIN Logins

\* C1: a request whose rpc_key_id parameter does not parse as an unsigned
\* integer never sends a query to the time-series store, and the parse
\* failure it ends in is a BadRequest.
C1_MalformedKeyIdAbortsBeforeQuery ==
    RpcKeyIdParseFails(params.rpc_key_id) =>
        /\ ~QuerySent
        /\ (result.msg = "Unable to parse rpc_key_id" => result.kind = "BadRequest")

\* C2 as stated: a request with start = stop (parameters parsed, caller
\* Anonymous or Authenticated) ends in BadRequest whatever the granularity,
\* chain, rpc_key_id, handles and bucket are.
C2_EqualWindowAlwaysBadRequest ==
    (/\ params.ok
     /\ params.query_start = params.query_stop
     /\ CallerIdentified
     /\ Finished) => result.kind = "BadRequest"

\* C2 as amended: a request with start = stop ends in BadRequest whatever the
\* caller kind, granularity, chain, rpc_key_id and bucket are, when both
\* handles are available; it never gets past validation.
C2_EqualWindowBadRequestGivenHandles ==
    (/\ params.ok
     /\ params.query_start = params.query_stop
     /\ CallerIdentified
     /\ IsSome(db_replica)
     /\ IsSome(influxdb_client))
    => /\ pc \in {"Start", "Authorized", "Failed"}
       /\ (Finished => result.kind = "BadRequest")

C2_Witness ==
    /\ params.query_start = params.query_stop
    /\ IsNone(influxdb_bucket)
    /\ user_id # 0
    /\ stat_response_type = "Aggregated"
    /\ pc = "Failed"
    /\ result = BadRequest("Start and Stop date cannot be equal. Please specify a (different) start date.")

\* C3: once the decoder has met a record whose String-tagged
\* rpc_secret_key_id is not a key of rpc_key_id_to_key, the request is
\* Failed with an Internal error: it is not a success and not a panic.
C3_UnknownKeyIdIsInternalError ==
    (Happened("decode") /\ AnyRecordPanics(raw_influx_responses, rpc_key_id_to_key))
    => (pc = "Failed" /\ result.kind = "Internal")

\* the key ids the fixture makes visible to uid: owned keys, and keys of the
\* delegations to uid with role Owner or Admin
VisibleKeyIds(keys, subusers, uid) ==
    {ToString(keys[i].id) : i \in {j \in 1..Len(keys) : keys[j].user_id = uid}} \cup
    {ToString(subusers[i].rpc_key_id) :
        i \in {j \in 1..Len(subusers) :
                 /\ subusers[j].user_id = uid
                 /\ subusers[j].role \in {"Owner", "Admin"}
                 /\ \E k \in 1..Len(keys) : keys[k].id = subusers[j].rpc_key_id}}

RemoveAt(seq, i) == SubSeq(seq, 1, i - 1) \o SubSeq(seq, i + 1, Len(seq))

\* both relational reads are done
ScopeRead == Happened("read_subuser_keys") /\ result.msg # "failed loading subuser keys"

\* C4: after both reads, the ids of the key filter list and the keys of the
\* display map are exactly the caller's owned keys and the keys delegated to
\* the caller with role Owner or Admin; taking a Member delegation out of
\* the fixture leaves the list and the map as they are.
C4_ScopeIsOwnedAndAdminDelegated ==
    ScopeRead =>
        /\ SeqToSet(user_rpc_keys) = VisibleKeyIds(rpc_key_table, secondary_user_table, user_id)
        /\ DOMAIN rpc_key_id_to_key = VisibleKeyIds(rpc_key_table, secondary_user_table, user_id)
        /\ (pc # "Failed" => rpc_key_filter = Some(user_rpc_keys))
        /\ \A i \in 1..Len(secondary_user_table) :
             secondary_user_table[i].role = "Member" =>
               LET without == RemoveAt(secondary_user_table, i)
                   shared == SharedKeyRows(FindSubusersWithKeys(without, rpc_key_table, user_id))
                   owned == FindRpcKeys(rpc_key_table, user_id)
               IN /\ user_rpc_keys = OwnedKeyIds(owned) \o OwnedKeyIds(shared)
                  /\ rpc_key_id_to_key = InsertRows(InsertRows(EmptyMap, owned), shared)

C4_Witness ==
    /\ pc = "ScopeResolved"
    /\ user_id = 7
    /\ \E i, j \in 1..Len(secondary_user_table) :
         /\ secondary_user_table[i] = [user_id |-> 7, rpc_key_id |-> 9, role |-> "Member"]
         /\ secondary_user_table[j] = [user_id |-> 7, rpc_key_id |-> 3, role |-> "Admin"]
    /\ rpc_key_table = <<RpcKeyRow(3, 8), RpcKeyRow(9, 8)>>
    /\ user_rpc_keys = <<"3">>

\* C5: a Detailed request without bearer stops at the first check: it makes
\* no call to the relational store or the time-series store, and what it
\* ends in is a BadRequest.
C5_DetailedAnonymousIsBadRequest ==
    (stat_response_type = "Detailed" /\ IsNone(bearer)) =>
        /\ pc \in {"Start", "Authorized", "Failed"}
        /\ events = <<>>
        /\ user_id = 0
        /\ (Finished => result.kind = "BadRequest")

C5_Witness ==
    /\ stat_response_type = "Detailed"
    /\ IsNone(bearer)
    /\ pc = "Failed"
    /\ result.kind = "BadRequest"
    /\ IsNone(db_replica)


\* the caller owns no key and no delegation to the caller with role Owner or
\* Admin resolves to a key
NoVisibleKey ==
    /\ \A i \in 1..Len(rpc_key_table) : rpc_key_table[i].user_id # user_id
    /\ \A i \in 1..Len(secondary_user_table) :
         (/\ secondary_user_table[i].user_id = user_id
          /\ secondary_user_table[i].role \in {"Owner", "Admin"})
         => \A k \in 1..Len(rpc_key_table) :
              rpc_key_table[k].id # secondary_user_table[i].rpc_key_id

\* C6: when both reads of an Authenticated caller find no owned key and no
\* key delegated with role Owner or Admin, the request is Failed with the
\* BadRequest of line 130, no query is built and none is sent.
C6_NoVisibleKeysIsBadRequest ==
    (user_id # 0 /\ ScopeRead /\ NoVisibleKey) =>
        /\ pc = "Failed"
        /\ result = BadRequest("User has no secret RPC keys yet")
        /\ IsNone(query)
        /\ ~QuerySent

C6_Witness ==
    /\ user_id = 7
    /\ ScopeRead
    /\ rpc_key_table = <<RpcKeyRow(3, 8)>>
    /\ secondary_user_table = <<[user_id |-> 7, rpc_key_id |-> 3, role |-> "Member"],
                                [user_id |-> 7, rpc_key_id |-> 9, role |-> "Admin"]>>
    /\ pc = "Failed"
    /\ result.kind = "BadRequest"

\* every check before a handle is looked at lets the request through
PassesBearerChecks ==
    /\ CallerIdentified
    /\ ~(stat_response_type = "Detailed" /\ IsNone(bearer))

\* the request got as far as the bucket lookup of line 144
ReachedBucketLookup ==
    /\ measurement # ""
    /\ user_id = 0 \/ IsSome(rpc_key_filter)

ExpectedTag ==
    [key \in LongFields |-> "Long"] @@ [key \in DoubleFields |-> "Double"] @@
    [key \in TimeFields |-> "TimeRFC"] @@ [key \in FlagFields |-> "String"] @@
    [key \in {"_measurement", "rpc_secret_key_id", "method", "chain_id"} |-> "String"]

PublicKey ==
    ("_measurement" :> "collection") @@ ("_stop" :> "stop_time") @@ ("_time" :> "time") @@
    ("backend_requests" :> "total_backend_requests") @@ ("balance" :> "balance") @@
    ("cache_hits" :> "total_cache_hits") @@ ("cache_misses" :> "total_cache_misses") @@
    ("frontend_requests" :> "total_frontend_requests") @@ ("no_servers" :> "no_servers") @@
    ("sum_credits_used" :> "total_credits_used") @@
    ("sum_request_bytes" :> "total_request_bytes") @@
    ("sum_response_bytes" :> "total_response_bytes") @@
    ("rpc_secret_key_id" :> "rpc_key") @@
    ("sum_response_millis" :> "total_response_millis") @@ ("method" :> "method") @@
    ("chain_id" :> "chain_id") @@ ("archive_needed" :> "archive_needed") @@
    ("error_response" :> "error_response")

\* the fields of a record the decoder knows under this granularity
KnownIn(record) ==
    {key \in DOMAIN record \cap DOMAIN ExpectedTag :
        key = "method" => stat_response_type = "Detailed"}
WellTyped(record) == {key \in KnownIn(record) : record[key].tag = ExpectedTag[key]}
Mistyped(record) == KnownIn(record) \ WellTyped(record)
Without(record, key) == [k \in DOMAIN record \ {key} |-> record[k]]

\* C8: for each record and each known field of it with an unexpected tag,
\* decoding goes as it goes for the record without that field: the request
\* fails in the one exactly when it fails in the other, and the row, when
\* there is one, is the same row; it lacks the public key of that field and
\* has the public key of every other known field carrying its expected tag.
C8_MistypedFieldOnlyDropsItself ==
    Happened("decode") =>
      \A i \in 1..Len(raw_influx_responses) :
        \A key \in Mistyped(raw_influx_responses[i]) :
          LET record == raw_influx_responses[i]
              rest == Without(record, key)
          IN /\ (pc = "Panicked") <=>
                   \E j \in 1..Len(raw_influx_responses) :
                      RecordPanics(IF j = i THEN rest ELSE raw_influx_responses[j],
                                   rpc_key_id_to_key)
             /\ pc # "Panicked" =>
                  /\ Len(datapoints) = Len(raw_influx_responses)
                  /\ PublicKey[key] \notin DOMAIN datapoints[i]
                  /\ \A other \in WellTyped(record) : PublicKey[other] \in DOMAIN datapoints[i]
                  /\ \A other \in WellTyped(rest) :
                       datapoints[i][PublicKey[other]] =
                         DecodeEntry(other, rest[other], stat_response_type,
                                     rpc_key_id_to_key)[PublicKey[other]]

C8_Witness ==
    /\ pc = "Decoded"
    /\ raw_influx_responses =
         << ("frontend_requests" :> VDouble(5)) @@ ("rpc_secret_key_id" :> VString("3")) >>
    /\ datapoints = << ("rpc_key" :> JString("103")) >>

\* C9: the keys of a produced row are exactly the public keys of the known
\* fields of the record that carry their expected tag (method known only
\* under Detailed), one key for each such field.
C9_RowKeysAreDecodedFields ==
    pc = "Decoded" =>
      /\ Len(datapoints) = Len(raw_influx_responses)
      /\ \A i \in 1..Len(raw_influx_responses) :
           /\ DOMAIN datapoints[i] =
                {PublicKey[key] : key \in WellTyped(raw_influx_responses[i])}
           /\ Cardinality(DOMAIN datapoints[i]) =
                Cardinality(WellTyped(raw_influx_responses[i]))

C9_Witness ==
    /\ pc = "Decoded"
    /\ stat_response_type = "Aggregated"
    /\ raw_influx_responses = << ("method" :> VString("eth_call")) @@ ("_time" :> VTimeRFC(1300)) >>
    /\ DOMAIN datapoints[1] = {"time"}

\* the numeric ids the rpc_key_id parameters of the model stand for
NumericId == (<<"5">> :> 5) @@ (<<"1", "2">> :> 12)

\* C10: in a success envelope num_items is the number of rows of result;
\* user_id is there exactly for an Authenticated caller and is the caller's
\* id; rpc_key_id is there exactly when the parameter was sent and is its
\* numeric value.
C10_EnvelopeOptionalFields ==
    result.kind = "Ok" =>
      /\ response_body["num_items"] = JNumber(Len(response_body["result"].items))
      /\ response_body["result"].items = datapoints
      /\ Len(datapoints) = Len(raw_influx_responses)
      /\ "user_id" \in DOMAIN response_body <=> IsSome(bearer)
      /\ IsSome(bearer) => response_body["user_id"] = JNumber(Logins[Unwrap(bearer)])
      /\ "rpc_key_id" \in DOMAIN response_body <=> IsSome(params.rpc_key_id)
      /\ IsSome(params.rpc_key_id) =>
           /\ Unwrap(params.rpc_key_id) \in DOMAIN NumericId
           /\ response_body["rpc_key_id"] = JNumber(NumericId[Unwrap(params.rpc_key_id)])

C10_Witness ==
    /\ result.kind = "Ok"
    /\ IsNone(bearer)
    /\ "user_id" \notin DOMAIN response_body
    /\ "rpc_key_id" \in DOMAIN response_body
    /\ response_body["rpc_key_id"] = JNumber(12)
    /\ response_body["num_items"] = JNumber(1)


\* C11: a built query restricts the measurement to global_proxy for an
\* Anonymous caller and to opt_in_proxy for an Authenticated one; it has a
\* key-id membership filter exactly for an Authenticated caller, and the
\* filter lists exactly the visible key ids of the fixture; it has a chain
\* filter, on chain_id, exactly when chain_id # 0; it drops the method
\* column exactly when the granularity is Aggregated.
C11_QueryFragmentsFollowRequest ==
    IsSome(query) =>
      LET built == Unwrap(query)
      IN /\ built.measurement = (IF IsNone(bearer) THEN "global_proxy" ELSE "opt_in_proxy")
         /\ IsSome(built.rpc_key_filter) <=> IsSome(bearer)
         /\ IsSome(built.rpc_key_filter) =>
              /\ SeqToSet(Unwrap(built.rpc_key_filter)) # {}
              /\ SeqToSet(Unwrap(built.rpc_key_filter)) =
                   VisibleKeyIds(rpc_key_table, secondary_user_table, user_id)
         /\ IsSome(built.filter_chain_id) <=> params.chain_id # 0
         /\ IsSome(built.filter_chain_id) => Unwrap(built.filter_chain_id) = params.chain_id
         /\ built.drop_method <=> stat_response_type = "Aggregated"
         /\ built.bucket = Unwrap(influxdb_bucket)
         /\ built.range_start = params.query_start
         /\ built.range_stop = params.query_stop

C11_Witness ==
    /\ pc = "QueryBuilt"
    /\ user_id = 7
    /\ stat_response_type = "Aggregated"
    /\ params.chain_id = 1
    /\ rpc_key_table = <<RpcKeyRow(3, 7), RpcKeyRow(9, 8)>>
    /\ secondary_user_table = <<[user_id |-> 7, rpc_key_id |-> 9, role |-> "Admin"]>>
    /\ IsSome(query)
    /\ Unwrap(query).measurement = "opt_in_proxy"
    /\ Unwrap(query).rpc_key_filter = Some(<<"3", "9">>)
    /\ Unwrap(query).filter_chain_id = Some(1)
    /\ Unwrap(query).drop_method


Count(event) == Cardinality({i \in 1..Len(events) : events[i] = event})
Before(first, second) ==
    \A i, j \in 1..Len(events) :
        (events[i] = first /\ events[j] = second) => i < j

\* C12: in one request the query text is built only after both relational
\* reads of an Authenticated caller are done, records are decoded only after
\* the store call is done, and each of the three external calls (owned-key
\* read, delegated-key read, store query) is issued at most once.
C12_StepsInOrderAndOnce ==
    /\ IsSome(query) <=> Happened("query_built")
    /\ (Happened("query_built") /\ IsSome(bearer)) =>
          (Happened("read_owned_keys") /\ Happened("read_subuser_keys"))
    /\ Before("read_owned_keys", "query_built")
    /\ Before("read_subuser_keys", "query_built")
    /\ Before("query_built", "query_sent")
    /\ Happened("decode") => Happened("query_sent")
    /\ Before("query_sent", "decode")
    /\ (datapoints # <<>> \/ pc \in {"Decoded", "Panicked", "Done"}) => Happened("decode")
    /\ raw_influx_responses # <<>> => Happened("query_sent")
    /\ Count("read_owned_keys") <= 1
    /\ Count("read_subuser_keys") <= 1
    /\ Count("query_sent") <= 1

C12_Witness ==
    /\ pc = "Done"
    /\ events = <<"bearer_check", "read_owned_keys", "read_subuser_keys",
                  "query_built", "query_sent", "decode">>
    /\ Len(datapoints) = 1


\* the ids the built query filters on: none without a key filter
FilterIds(built) ==
    IF IsSome(built.rpc_key_filter) THEN SeqToSet(Unwrap(built.rpc_key_filter)) ELSE {}

\* C13: once the query is built, the keys of rpc_key_id_to_key are exactly
\* the ids of the key filter list of the query, also when the list names an
\* id more than once; each of them maps to the display form of the secret of
\* that key.
C13_DisplayMapCoversFilter ==
    Happened("query_built") =>
      /\ DOMAIN rpc_key_id_to_key = FilterIds(Unwrap(query))
      /\ DOMAIN rpc_key_id_to_key = SeqToSet(user_rpc_keys)
      /\ \A i \in 1..Len(rpc_key_table) :
           ToString(rpc_key_table[i].id) \in DOMAIN rpc_key_id_to_key =>
             rpc_key_id_to_key[ToString(rpc_key_table[i].id)] =
               ToString(rpc_key_table[i].secret_key)

C13_Witness ==
    /\ Happened("query_built")
    /\ Unwrap(query).rpc_key_filter = Some(<<"3", "9", "3">>)
    /\ DOMAIN rpc_key_id_to_key = {"3", "9"}

====
